---------------------------- MODULE Spec2Model ----------------------------
(***************************************************************************)
(* Model of the matchmaking and race-state engine of typeracer-tui:        *)
(* package game (Manager, Lobby, Session, Player).                         *)
(*                                                                         *)
(* Strings are sequences over Alphabet.  time.Time values are natural      *)
(* numbers, ZeroTime being Go's zero time.Time; now is what time.Now()     *)
(* returns, and it never decreases.  float64 values                       *)
(* (WPM, Accuracy) are exact reduced fractions [n, d].  Player ids are     *)
(* 1..NumPlayers, the uuids of lobbies and sessions are drawn in order     *)
(* from NumPlayers+1 .. NumPlayers+MaxIds and never reused.  A *Player is  *)
(* identified with its id: Manager.RemovePlayer takes the object out of    *)
(* every registered roster before it deletes it from the registry, so no   *)
(* registered roster ever holds an object other than the registered one.   *)
(* Fields that no code of the package reads (Player.Name,                  *)
(* Player.LastUpdate, Session.Author, Lobby.CreatedAt) are left out.       *)
(* AddPlayer, RemovePlayer, CreateLobby, JoinLobby, LeaveLobby and         *)
(* StartSessionFromLobby hold m.mu for their whole body and every Session  *)
(* method holds s.mu for its whole body: each is one atomic action.        *)
(* Manager.UpdatePlayerProgress, which looks the session up and then calls *)
(* Session.UpdatePlayerProgress, is taken here as one step as well.        *)
(* A session that Manager.RemovePlayer deletes from the registry while its *)
(* runCountdown goroutine holds it lives on as an object: detached keeps   *)
(* it, and the goroutine goes on writing to it.                            *)
(***************************************************************************)
EXTENDS Integers, Sequences, FiniteSets, TLC

\* ------------------------------------------------------------------ bounds
NumPlayers == 3
MaxIds == 2
MaxCap == 3
MaxTime == 2
MaxLen == 1
MaxEnd == 3
NumConns == 3
NumThreads == 2

\* --------------------------------------------------------------- constants
ZeroTime == 0
NoId == 0
CountdownFrom == 3
MinPlayers == 2
WordLen == 5
DefaultCapacity == 4

PlayerIds == 1..NumPlayers
Uuids == (NumPlayers + 1)..(NumPlayers + MaxIds)
Caps == 1..MaxCap
Alphabet == {"a", "b"}
Strs(n) == UNION {[1..k -> Alphabet] : k \in 0..n}
\* the prompt the quote source hands out: never empty (quotes/fetcher.go:58)
Prompts == {[i \in 1..MaxLen |-> "a"]}
\* what a client may submit as its typed text
Texts == Strs(MaxLen)

ErrNone == ""
ErrPlayerExists == "player already exists"
ErrPlayerNotFound == "player not found"
ErrLobbyNotFound == "lobby not found"
ErrLobbyFull == "lobby is full"
ErrNotEnough == "not enough players to start session"
ErrSessionFull == "session is full"
ErrSessionStarted == "session has already started"
ErrSessionActive == "session is already active"
ErrStartNotEnough == "not enough players to start"
ErrNotInSession == "player not in any session"

VARIABLES players, lobbies, sessions, now, nextId, ret, calls, detached, conns

vars == <<players, lobbies, sessions, now, nextId, ret, calls, detached, conns>>

\* ---------------------------------------------------------------- helpers
Min(a, b) == IF a < b THEN a ELSE b

RECURSIVE GCD(_, _)
GCD(a, b) == IF b = 0 THEN a ELSE GCD(b, a % b)

\* the float64 n/d, d > 0
Frac(n, d) == LET g == GCD(n, d) IN [n |-> n \div g, d |-> d \div g]
FZero == [n |-> 0, d |-> 1]

\* the values time.Now() may return next
Clock == now..MaxTime

NoPlayer == [absent |-> TRUE]
Registered == {p \in PlayerIds : players[p] # NoPlayer}

\* ----------------------------------------------------------------- Player
NewPlayer(sessionID, t) ==
    [SessionID |-> sessionID, CurrentPos |-> 0, TypedInput |-> <<>>,
     StartTime |-> t, EndTime |-> ZeroTime, IsFinished |-> FALSE,
     WPM |-> FZero, Accuracy |-> FZero, CorrectChars |-> 0, TotalChars |-> 0]

\* the loop of calculateAccuracy: the matching positions among the first total
CountCorrect(typed, prompt, total) ==
    Cardinality({i \in 1..total :
        i <= Len(typed) /\ i <= Len(prompt) /\ typed[i] = prompt[i]})

\* mutant: every typed character is compared, also those beyond the prompt
calculateAccuracyAll(p, prompt) ==
    IF Len(prompt) = 0
    THEN [p EXCEPT !.Accuracy = FZero]
    ELSE LET total == Len(p.TypedInput)
             correct == CountCorrect(p.TypedInput, prompt, total)
         IN [p EXCEPT !.CorrectChars = correct,
                      !.TotalChars = total,
                      !.Accuracy = IF total > 0 THEN Frac(correct * 100, total)
                                   ELSE FZero]

calculateAccuracy(p, prompt) ==
    IF Len(prompt) = 0
    THEN [p EXCEPT !.Accuracy = FZero]
    ELSE LET total == Min(Len(p.TypedInput), Len(prompt))
             correct == CountCorrect(p.TypedInput, prompt, total)
         IN [p EXCEPT !.CorrectChars = correct,
                      !.TotalChars = total,
                      !.Accuracy = IF total > 0 THEN Frac(correct * 100, total)
                                   ELSE FZero]

\* t is time.Now() for the live estimate
calculateWPM(p, t) ==
    LET elapsed == IF p.IsFinished THEN p.EndTime - p.StartTime
                   ELSE t - p.StartTime
    IN IF elapsed > 0
       THEN [p EXCEPT !.WPM = Frac(p.CorrectChars, WordLen * elapsed)]
       ELSE p

\* mutant: storing a text clears the finished flag
UpdateProgressReopens(p, typedInput, prompt, t) ==
    calculateWPM(
        calculateAccuracy(
            [p EXCEPT !.TypedInput = typedInput, !.CurrentPos = Len(typedInput),
                      !.IsFinished = FALSE],
            prompt),
        t)

UpdateProgress(p, typedInput, prompt, t) ==
    calculateWPM(
        calculateAccuracy(
            [p EXCEPT !.TypedInput = typedInput, !.CurrentPos = Len(typedInput)],
            prompt),
        t)

Finish(p, t) ==
    calculateWPM([p EXCEPT !.IsFinished = TRUE, !.EndTime = t], t)

\* mutant: complete only beyond the end of the prompt (> for >=)
IsCompleteBeyond(p, promptLength) == p.CurrentPos > promptLength

IsComplete(p, promptLength) == p.CurrentPos >= promptLength

\* ------------------------------------------------------------------ Lobby
NewLobby(maxPlayers) == [Players |-> {}, MaxPlayers |-> maxPlayers]

\* mutant: the member is left on the roster
LobbyRemovePlayerKept(l, p) == l

LobbyRemovePlayer(l, p) == [l EXCEPT !.Players = @ \ {p}]

LobbyIsReady(l) == Cardinality(l.Players) >= MinPlayers

\* ---------------------------------------------------------------- Session
\* cd: the values the runCountdown goroutine has still to write, in order;
\* spawned: how many runCountdown goroutines Start has launched
NewSession(prompt, maxPlayers) ==
    [Prompt |-> prompt, Players |-> {}, MaxPlayers |-> maxPlayers,
     StartTime |-> ZeroTime, EndTime |-> ZeroTime,
     IsActive |-> FALSE, IsFinished |-> FALSE, Countdown |-> 0,
     cd |-> <<>>, spawned |-> 0]

SessionAddPlayerErr(s) ==
    IF Cardinality(s.Players) >= s.MaxPlayers THEN ErrSessionFull
    ELSE IF s.IsActive THEN ErrSessionStarted
    ELSE ErrNone

SessionAddPlayer(s, p) ==
    IF SessionAddPlayerErr(s) = ErrNone
    THEN [s EXCEPT !.Players = @ \cup {p}]
    ELSE s

\* mutant: the roster entry is not deleted
SessionRemovePlayerKept(s, p) == s

SessionRemovePlayer(s, p) == [s EXCEPT !.Players = @ \ {p}]

\* mutant: Start does not refuse a session that is already active
SessionStartErrAgain(s) ==
    IF Cardinality(s.Players) < MinPlayers THEN ErrStartNotEnough ELSE ErrNone

SessionStartErr(s) ==
    IF s.IsActive THEN ErrSessionActive
    ELSE IF Cardinality(s.Players) < MinPlayers THEN ErrStartNotEnough
    ELSE ErrNone

SessionStart(s, t) ==
    IF SessionStartErr(s) = ErrNone
    THEN [s EXCEPT !.IsActive = TRUE, !.StartTime = t,
                   !.Countdown = CountdownFrom,
                   !.cd = <<3, 2, 1, 0>>, !.spawned = @ + 1]
    ELSE s

\* one locked write of the runCountdown goroutine
\* mutant: the goroutine returns after its loop, the final 0 never written
runCountdownStepNoZero(s) ==
    [s EXCEPT !.Countdown = Head(s.cd),
              !.cd = IF Len(s.cd) = 2 THEN <<>> ELSE Tail(s.cd)]

runCountdownStep(s) ==
    [s EXCEPT !.Countdown = Head(s.cd), !.cd = Tail(s.cd)]

\* pl: the players as they are when the roster is scanned; t: time.Now()
checkCompletion(s, pl, t) ==
    IF s.IsFinished THEN s
    ELSE IF \A q \in s.Players : pl[q].IsFinished
         THEN [s EXCEPT !.IsFinished = TRUE, !.EndTime = t]
         ELSE s

\* Session.UpdatePlayerProgress on session sid; tU, tF, tC are the clock
\* readings of UpdateProgress, Finish and checkCompletion.  Yields the new
\* player registry and session registry.
SessionUpdatePlayerProgress(sid, p, typedInput, tU, tF, tC) ==
    LET s == sessions[sid] IN
    IF p \in s.Players
    THEN LET p1 == UpdateProgress(players[p], typedInput, s.Prompt, tU)
             p2 == IF IsComplete(p1, Len(s.Prompt)) /\ ~p1.IsFinished
                   THEN Finish(p1, tF) ELSE p1
             pl == [players EXCEPT ![p] = p2]
         IN [pl |-> pl,
             ss |-> [sessions EXCEPT ![sid] = checkCompletion(s, pl, tC)]]
    ELSE [pl |-> players, ss |-> sessions]

\* the swap body of GetLeaderboard's double loop, at indices i < j
LeaderboardStep(ps, i, j) ==
    LET a == players[ps[i]]
        b == players[ps[j]]
        swapped == [ps EXCEPT ![i] = ps[j], ![j] = ps[i]]
    IN IF a.IsFinished /\ b.IsFinished
       THEN (IF a.EndTime > b.EndTime THEN swapped ELSE ps)
       ELSE IF a.IsFinished /\ ~b.IsFinished THEN swapped
       ELSE ps

RECURSIVE LeaderboardLoop(_, _, _)
LeaderboardLoop(ps, i, j) ==
    IF i > Len(ps) THEN ps
    ELSE IF j > Len(ps) THEN LeaderboardLoop(ps, i + 1, i + 2)
    ELSE LeaderboardLoop(LeaderboardStep(ps, i, j), i, j + 1)

\* mutant: two finished players are swapped when the earlier one comes
\* first (Before for After)
LeaderboardBefore(order) ==
    LET RECURSIVE Loop(_, _, _)
        Loop(ps, i, j) ==
            IF i > Len(ps) THEN ps
            ELSE IF j > Len(ps) THEN Loop(ps, i + 1, i + 2)
            ELSE LET a == players[ps[i]]
                     b == players[ps[j]]
                     swapped == [ps EXCEPT ![i] = ps[j], ![j] = ps[i]]
                 IN Loop(IF a.IsFinished /\ b.IsFinished
                         THEN (IF a.EndTime < b.EndTime THEN swapped ELSE ps)
                         ELSE IF a.IsFinished /\ ~b.IsFinished THEN swapped
                         ELSE ps, i, j + 1)
    IN Loop(order, 1, 2)

\* mutant: the swap writes players[i] only
LeaderboardHalfSwap(order) ==
    LET RECURSIVE Loop(_, _, _)
        Loop(ps, i, j) ==
            IF i > Len(ps) THEN ps
            ELSE IF j > Len(ps) THEN Loop(ps, i + 1, i + 2)
            ELSE LET a == players[ps[i]]
                     b == players[ps[j]]
                     swapped == [ps EXCEPT ![i] = ps[j]]
                 IN Loop(IF a.IsFinished /\ b.IsFinished
                         THEN (IF a.EndTime > b.EndTime THEN swapped ELSE ps)
                         ELSE IF a.IsFinished /\ ~b.IsFinished THEN swapped
                         ELSE ps, i, j + 1)
    IN Loop(order, 1, 2)

\* order: the order in which the map iteration delivered the roster
GetLeaderboard(order) == LeaderboardLoop(order, 1, 2)

\* every order in which ranging over a map with these keys can deliver them
Orders(S) ==
    {f \in [1..Cardinality(S) -> S] : \A i, j \in DOMAIN f : i # j => f[i] # f[j]}

\* ---------------------------------------------------------------- Manager
Result(op, arg, err, id, val) ==
    [op |-> op, arg |-> arg, err |-> err, id |-> id, val |-> val]

\* mutant: the delete from the map is forgotten
DropNothing(f, ks) == f

Drop(f, ks) == [k \in DOMAIN f \ ks |-> f[k]]

Init ==
    /\ players = [p \in PlayerIds |-> NoPlayer]
    /\ lobbies = <<>>
    /\ sessions = <<>>
    /\ now = 1
    /\ nextId = NumPlayers + 1
    /\ ret = Result("NewManager", <<>>, ErrNone, NoId, <<>>)
    /\ calls = <<>>
    /\ detached = <<>>
    /\ conns = <<>>

\* mutant: the duplicate id is not refused, the new player overwrites
AddPlayerErrNever(p) == ErrNone

AddPlayerErr(p) == IF players[p] # NoPlayer THEN ErrPlayerExists ELSE ErrNone

\* the body of Manager.AddPlayer, under m.mu
AddPlayerLocked(p) ==
    /\ ret' = Result("AddPlayer", <<p>>, AddPlayerErr(p), NoId, <<>>)
    /\ IF AddPlayerErr(p) = ErrNone
       THEN players' = [players EXCEPT ![p] = NewPlayer(NoId, now)]
       ELSE UNCHANGED players
    /\ UNCHANGED <<lobbies, sessions, now, nextId, detached>>

AddPlayer(p) == AddPlayerLocked(p) /\ UNCHANGED <<calls, conns>>

\* the body of Manager.RemovePlayer, under m.mu
RemovePlayerLocked(p) ==
    /\ LET ss == [k \in DOMAIN sessions |-> SessionRemovePlayer(sessions[k], p)]
           ls == [k \in DOMAIN lobbies |-> LobbyRemovePlayer(lobbies[k], p)]
           gone == {k \in DOMAIN ss : ss[k].Players = {}}
       IN /\ sessions' = Drop(ss, gone)
          /\ lobbies' = Drop(ls, {k \in DOMAIN ls : ls[k].Players = {}})
          /\ detached' = [k \in {g \in gone : ss[g].spawned > 0} |-> ss[k]] @@ detached
    /\ players' = [players EXCEPT ![p] = NoPlayer]
    /\ ret' = Result("RemovePlayer", <<p>>, ErrNone, NoId, <<>>)
    /\ UNCHANGED <<now, nextId>>

RemovePlayer(p) == RemovePlayerLocked(p) /\ UNCHANGED <<calls, conns>>

\* the body of Manager.CreateLobby, under m.mu
CreateLobbyLocked(maxPlayers) ==
    /\ nextId <= NumPlayers + MaxIds
    /\ lobbies' = (nextId :> NewLobby(maxPlayers)) @@ lobbies
    /\ nextId' = nextId + 1
    /\ ret' = Result("CreateLobby", <<maxPlayers>>, ErrNone, nextId, <<>>)
    /\ UNCHANGED <<players, sessions, now, detached>>

CreateLobby(maxPlayers) == CreateLobbyLocked(maxPlayers) /\ UNCHANGED <<calls, conns>>

\* mutant: the capacity test off by one (> for >=)
JoinLobbyErrOffByOne(p, l) ==
    IF players[p] = NoPlayer THEN ErrPlayerNotFound
    ELSE IF l \notin DOMAIN lobbies THEN ErrLobbyNotFound
    ELSE IF Cardinality(lobbies[l].Players) > lobbies[l].MaxPlayers
         THEN ErrLobbyFull
    ELSE ErrNone

JoinLobbyErr(p, l) ==
    IF players[p] = NoPlayer THEN ErrPlayerNotFound
    ELSE IF l \notin DOMAIN lobbies THEN ErrLobbyNotFound
    ELSE IF Cardinality(lobbies[l].Players) >= lobbies[l].MaxPlayers
         THEN ErrLobbyFull
    ELSE ErrNone

\* the body of Manager.JoinLobby, under m.mu
JoinLobbyLocked(p, l) ==
    /\ ret' = Result("JoinLobby", <<p, l>>, JoinLobbyErr(p, l), NoId, <<>>)
    /\ IF JoinLobbyErr(p, l) = ErrNone
       THEN /\ lobbies' = [lobbies EXCEPT ![l].Players = @ \cup {p}]
            /\ players' = [players EXCEPT ![p].SessionID = l]
       ELSE UNCHANGED <<lobbies, players>>
    /\ UNCHANGED <<sessions, now, nextId, detached>>

JoinLobby(p, l) == JoinLobbyLocked(p, l) /\ UNCHANGED <<calls, conns>>

LeaveLobby(p, l) ==
    /\ IF l \in DOMAIN lobbies
       THEN LET lb == LobbyRemovePlayer(lobbies[l], p)
            IN lobbies' = IF lb.Players = {} THEN Drop(lobbies, {l})
                          ELSE [lobbies EXCEPT ![l] = lb]
       ELSE UNCHANGED lobbies
    /\ ret' = Result("LeaveLobby", <<p, l>>, ErrNone, NoId, <<>>)
    /\ UNCHANGED <<players, sessions, now, nextId, calls, detached, conns>>

\* mutant: one member is taken to be enough (< 1 for < 2)
StartSessionFromLobbyErrOne(l) ==
    IF l \notin DOMAIN lobbies THEN ErrLobbyNotFound
    ELSE IF Cardinality(lobbies[l].Players) < 1 THEN ErrNotEnough
    ELSE ErrNone

\* mutant: a missing lobby is reported as a lobby that is too small
StartSessionFromLobbyErrGone(l) ==
    IF l \notin DOMAIN lobbies THEN ErrNotEnough
    ELSE IF Cardinality(lobbies[l].Players) < MinPlayers THEN ErrNotEnough
    ELSE ErrNone

StartSessionFromLobbyErr(l) ==
    IF l \notin DOMAIN lobbies THEN ErrLobbyNotFound
    ELSE IF Cardinality(lobbies[l].Players) < MinPlayers THEN ErrNotEnough
    ELSE ErrNone

\* mutant: the lobby is left in the registry
DeleteLobbyForgotten(l) == lobbies

\* delete(m.lobbies, lobbyID)
DeleteLobby(l) == Drop(lobbies, {l})

RECURSIVE AddAll(_, _)
\* the loop over lobby.Players: session.AddPlayer for each, errors dropped
AddAll(s, ps) ==
    IF ps = {} THEN s
    ELSE LET p == CHOOSE q \in ps : TRUE
         IN AddAll(SessionAddPlayer(s, p), ps \ {p})

\* the body of StartSessionFromLobby, under m.mu
StartSessionFromLobbyLocked(l) ==
    IF StartSessionFromLobbyErr(l) # ErrNone
    THEN /\ ret' = Result("StartSessionFromLobby", <<l>>,
                          StartSessionFromLobbyErr(l), NoId, <<>>)
         /\ UNCHANGED <<players, lobbies, sessions, now, nextId, detached>>
    ELSE /\ nextId <= NumPlayers + MaxIds
         /\ \E prompt \in Prompts :
               sessions' = (nextId :> AddAll(NewSession(prompt, lobbies[l].MaxPlayers),
                                             lobbies[l].Players)) @@ sessions
         /\ players' = [p \in PlayerIds |->
                           IF p \in lobbies[l].Players
                           THEN [players[p] EXCEPT !.SessionID = nextId]
                           ELSE players[p]]
         /\ lobbies' = DeleteLobby(l)
         /\ nextId' = nextId + 1
         /\ ret' = Result("StartSessionFromLobby", <<l>>, ErrNone, nextId, <<>>)
         /\ UNCHANGED <<now, detached>>

StartSessionFromLobby(l) ==
    StartSessionFromLobbyLocked(l) /\ UNCHANGED <<calls, conns>>

\* the sessions the lookup of Manager.UpdatePlayerProgress may settle on
RouteTargets(p) ==
    IF p \in DOMAIN sessions THEN {p}
    ELSE {k \in DOMAIN sessions : p \in sessions[k].Players}

\* Manager.UpdatePlayerProgress but for what it leaves to its caller
UpdatePlayerProgressRouted(p, typedInput) ==
    IF RouteTargets(p) = {}
    THEN /\ ret' = Result("UpdatePlayerProgress", <<p>>, ErrNotInSession, NoId, <<>>)
         /\ UNCHANGED <<players, lobbies, sessions, now, nextId, detached>>
    ELSE \E sid \in RouteTargets(p), tF \in Clock :
           \E tC \in tF..MaxTime :
             LET r == SessionUpdatePlayerProgress(sid, p, typedInput, now, tF, tC)
             IN /\ players' = r.pl
                /\ sessions' = r.ss
                /\ now' = tC
                /\ ret' = Result("UpdatePlayerProgress", <<p>>, ErrNone, sid, <<>>)
                /\ UNCHANGED <<lobbies, nextId, detached>>

UpdatePlayerProgress(p, typedInput) ==
    UpdatePlayerProgressRouted(p, typedInput) /\ UNCHANGED <<calls, conns>>

\* Session.AddPlayer on a registered session, with a registered player
AddPlayerToSession(sid, p) ==
    /\ sid \in DOMAIN sessions
    /\ players[p] # NoPlayer
    /\ sessions' = [sessions EXCEPT ![sid] = SessionAddPlayer(@, p)]
    /\ ret' = Result("Session.AddPlayer", <<sid, p>>,
                     SessionAddPlayerErr(sessions[sid]), NoId, <<>>)
    /\ UNCHANGED <<players, lobbies, now, nextId, calls, detached, conns>>

\* Session.Start on a registered session
Start(sid) ==
    /\ sid \in DOMAIN sessions
    /\ sessions' = [sessions EXCEPT ![sid] = SessionStart(@, now)]
    /\ ret' = Result("Session.Start", <<sid>>, SessionStartErr(sessions[sid]),
                     NoId, <<>>)
    /\ UNCHANGED <<players, lobbies, now, nextId, calls, detached, conns>>

\* one iteration of a running runCountdown goroutine
runCountdown(sid) ==
    \/ /\ sid \in DOMAIN sessions
       /\ sessions[sid].cd # <<>>
       /\ sessions' = [sessions EXCEPT ![sid] = runCountdownStep(@)]
       /\ UNCHANGED <<players, lobbies, now, nextId, ret, calls, detached, conns>>
    \/ /\ sid \in DOMAIN detached
       /\ detached[sid].cd # <<>>
       /\ detached' = [detached EXCEPT ![sid] = runCountdownStep(@)]
       /\ UNCHANGED <<players, lobbies, sessions, now, nextId, ret, calls, conns>>

\* Session.GetLeaderboard on a registered session
Leaderboard(sid) ==
    /\ sid \in DOMAIN sessions
    /\ \E order \in Orders(sessions[sid].Players) :
          ret' = Result("Session.GetLeaderboard", <<sid, order>>, ErrNone, NoId,
                        GetLeaderboard(order))
    /\ UNCHANGED <<players, lobbies, sessions, now, nextId, calls, detached, conns>>

\* the wall clock advances between calls
Tick ==
    /\ now < MaxTime
    /\ now' = now + 1
    /\ UNCHANGED <<players, lobbies, sessions, nextId, ret, calls, detached, conns>>

\* the Manager's matchmaking operations
NextMatch ==
    \/ \E p \in PlayerIds : AddPlayer(p)
    \/ \E p \in PlayerIds : RemovePlayer(p)
    \/ \E c \in Caps : CreateLobby(c)
    \/ \E p \in PlayerIds, l \in Uuids : JoinLobby(p, l)
    \/ \E p \in PlayerIds, l \in Uuids : LeaveLobby(p, l)
    \/ \E l \in Uuids : StartSessionFromLobby(l)

SpecMatch == Init /\ [][NextMatch]_vars

\* A race: the states StartSessionFromLobby leaves behind when the players
\* of reg are registered and those of roster have joined lobby NumPlayers+1
\* of capacity cap, which became session NumPlayers+2.
RaceSession == NumPlayers + 2

InitRace ==
    \E reg \in SUBSET PlayerIds, cap \in Caps, prompt \in Prompts :
      \E roster \in SUBSET reg :
        /\ Cardinality(roster) >= MinPlayers
        /\ Cardinality(roster) <= cap
        /\ players = [p \in PlayerIds |->
                         IF p \in roster THEN NewPlayer(RaceSession, 1)
                         ELSE IF p \in reg THEN NewPlayer(NoId, 1)
                         ELSE NoPlayer]
        /\ lobbies = <<>>
        /\ sessions = (RaceSession :>
                         [NewSession(prompt, cap) EXCEPT !.Players = roster])
        /\ now = 1
        /\ nextId = NumPlayers + 3
        /\ ret = Result("StartSessionFromLobby", <<NumPlayers + 1>>, ErrNone,
                        RaceSession, <<>>)
        /\ calls = <<>>
        /\ detached = <<>>
        /\ conns = <<>>

NextRace ==
    \/ \E p \in PlayerIds, t \in Texts : UpdatePlayerProgress(p, t)
    \/ \E s \in Uuids, p \in PlayerIds : AddPlayerToSession(s, p)
    \/ \E s \in Uuids : Start(s)
    \/ \E s \in Uuids : runCountdown(s)
    \/ \E p \in PlayerIds : RemovePlayer(p)
    \/ Tick

SpecRace == InitRace /\ [][NextRace]_vars

\* Session.UpdatePlayerProgress called on a registered session directly
Progress(sid, p, typedInput) ==
    /\ sid \in DOMAIN sessions
    /\ IF p \in sessions[sid].Players
       THEN \E tF \in Clock :
              \E tC \in tF..MaxTime :
                LET r == SessionUpdatePlayerProgress(sid, p, typedInput, now, tF, tC)
                IN /\ players' = r.pl
                   /\ sessions' = r.ss
                   /\ now' = tC
       ELSE UNCHANGED <<players, sessions, now>>
    /\ ret' = Result("Session.UpdatePlayerProgress", <<sid, p, typedInput>>,
                     ErrNone, NoId, <<>>)
    /\ UNCHANGED <<lobbies, nextId, calls, detached, conns>>

\* Progress routing in a race: updates sent through the Manager under any
\* id string, a player's or a uuid's, and to the session directly.
NextRoute ==
    \/ \E p \in PlayerIds \cup Uuids, t \in Texts : UpdatePlayerProgress(p, t)
    \/ \E s \in Uuids, p \in PlayerIds, t \in Texts : Progress(s, p, t)
    \/ \E s \in Uuids, p \in PlayerIds : AddPlayerToSession(s, p)
    \/ \E p \in PlayerIds : RemovePlayer(p)
    \/ Tick

SpecRoute == InitRace /\ [][NextRoute]_vars

\* Typing in a race: the members submit texts of any length up to one
\* character beyond the prompt, right or wrong.
NextTyping ==
    \E s \in Uuids, p \in PlayerIds, t \in Strs(MaxLen + 1) : Progress(s, p, t)

SpecTyping == InitRace /\ [][NextTyping]_vars

\* A race whose countdown goroutines are scheduled fairly: a goroutine that
\* has writes left sleeps one second and then takes s.mu, which no method
\* holds for ever.
NextCountdown ==
    \/ \E s \in Uuids : Start(s)
    \/ \E s \in Uuids : runCountdown(s)
    \/ \E p \in PlayerIds, t \in Texts : UpdatePlayerProgress(p, t)
    \/ \E p \in PlayerIds : RemovePlayer(p)

SpecCountdown ==
    /\ InitRace
    /\ [][NextCountdown]_vars
    /\ \A s \in Uuids : WF_vars(runCountdown(s))

\* The ranking of a roster: the rosters a session can hold, each member
\* either still typing or finished, having typed the whole prompt in one
\* update at some time of 1..MaxEnd.
FinishedAt(sid, prompt, t) ==
    Finish(UpdateProgress(NewPlayer(sid, 1), prompt, prompt, t), t)

InitBoard ==
    \E roster \in SUBSET PlayerIds, prompt \in Prompts :
      \E ends \in [roster -> 0..MaxEnd] :
        /\ roster # {}
        /\ players = [p \in PlayerIds |->
                         IF p \notin roster THEN NoPlayer
                         ELSE IF ends[p] = 0 THEN NewPlayer(RaceSession, 1)
                         ELSE FinishedAt(RaceSession, prompt, ends[p])]
        /\ lobbies = <<>>
        /\ sessions = (RaceSession :>
                         checkCompletion(
                             [NewSession(prompt, NumPlayers) EXCEPT !.Players = roster],
                             players, MaxEnd))
        /\ now = MaxEnd
        /\ nextId = NumPlayers + 3
        /\ ret = Result("UpdatePlayerProgress", <<>>, ErrNone, RaceSession, <<>>)
        /\ calls = <<>>
        /\ detached = <<>>
        /\ conns = <<>>

NextBoard == \E s \in Uuids : Leaderboard(s)

SpecBoard == InitBoard /\ [][NextBoard]_vars

\* The Player methods on one registered player.
PlayerUpdateProgress(p, typedInput, prompt) ==
    /\ players[p] # NoPlayer
    /\ players' = [players EXCEPT ![p] = UpdateProgress(@, typedInput, prompt, now)]
    /\ ret' = Result("Player.UpdateProgress", <<p, typedInput, prompt>>, ErrNone,
                     NoId, <<>>)
    /\ UNCHANGED <<lobbies, sessions, now, nextId, calls, detached, conns>>

PlayerFinish(p) ==
    /\ players[p] # NoPlayer
    /\ players' = [players EXCEPT ![p] = Finish(@, now)]
    /\ ret' = Result("Player.Finish", <<p>>, ErrNone, NoId, <<>>)
    /\ UNCHANGED <<lobbies, sessions, now, nextId, calls, detached, conns>>

InitPlayer ==
    /\ players = [p \in PlayerIds |-> IF p = 1 THEN NewPlayer(NoId, 1) ELSE NoPlayer]
    /\ lobbies = <<>>
    /\ sessions = <<>>
    /\ now = 1
    /\ nextId = NumPlayers + 1
    /\ ret = Result("AddPlayer", <<1>>, ErrNone, NoId, <<>>)
    /\ calls = <<>>
    /\ detached = <<>>
    /\ conns = <<>>

NextPlayer ==
    \/ \E p \in PlayerIds, t \in Strs(MaxLen + 1), prompt \in Strs(MaxLen) :
          PlayerUpdateProgress(p, t, prompt)
    \/ \E p \in PlayerIds : PlayerFinish(p)
    \/ Tick

SpecPlayer == InitPlayer /\ [][NextPlayer]_vars

\* Concurrent JoinLobby calls: the players of callers are registered, lobby
\* JoinTarget of capacity cap is empty, and each caller runs one JoinLobby
\* on it; calls[p] is "pending" until p's call has returned, then its error.
JoinTarget == NumPlayers + 1

InitJoin ==
    \E callers \in SUBSET PlayerIds, cap \in Caps :
        /\ callers # {}
        /\ players = [p \in PlayerIds |->
                         IF p \in callers THEN NewPlayer(NoId, 1) ELSE NoPlayer]
        /\ lobbies = (JoinTarget :> NewLobby(cap))
        /\ sessions = <<>>
        /\ now = 1
        /\ nextId = NumPlayers + 2
        /\ ret = Result("CreateLobby", <<cap>>, ErrNone, JoinTarget, <<>>)
        /\ calls = [p \in callers |-> "pending"]
        /\ detached = <<>>
        /\ conns = <<>>

JoinCall(p) ==
    /\ p \in DOMAIN calls
    /\ calls[p] = "pending"
    /\ JoinLobbyLocked(p, JoinTarget)
    /\ calls' = [calls EXCEPT ![p] = ret'.err]
    /\ UNCHANGED conns

NextJoin == \E p \in PlayerIds : JoinCall(p)

SpecJoin == InitJoin /\ [][NextJoin]_vars

\* The SSH server's connection handlers (gameMiddleware), one per
\* connection: conns[c].user is the ssh user name, which the handler uses
\* as player id, conns[c].pc the handler's position and conns[c].lobby the
\* lobby findOrCreateLobby returned.  Several connections may carry the
\* same user name.  GetAvailableLobbies and the loop over its result are
\* taken as one step.
ConnIds == 1..NumConns

\* Manager.GetAvailableLobbies
AvailableLobbies ==
    {l \in DOMAIN lobbies : Cardinality(lobbies[l].Players) < lobbies[l].MaxPlayers}

InitServer ==
    \E users \in [ConnIds -> PlayerIds] :
        /\ players = [p \in PlayerIds |-> NoPlayer]
        /\ lobbies = <<>>
        /\ sessions = <<>>
        /\ now = 1
        /\ nextId = NumPlayers + 1
        /\ ret = Result("NewManager", <<>>, ErrNone, NoId, <<>>)
        /\ calls = <<>>
        /\ detached = <<>>
        /\ conns = [c \in ConnIds |->
                       [user |-> users[c], pc |-> "add", lobby |-> NoId]]

\* s.manager.AddPlayer(playerID, playerName); on error close and return
ConnAdd(c) ==
    /\ conns[c].pc = "add"
    /\ AddPlayerLocked(conns[c].user)
    /\ conns' = [conns EXCEPT ![c].pc = IF AddPlayerErr(conns[c].user) = ErrNone
                                         THEN "find" ELSE "closed"]
    /\ UNCHANGED calls

\* findOrCreateLobby: a lobby with spare capacity if the registry has one
ConnFind(c) ==
    /\ conns[c].pc = "find"
    /\ IF AvailableLobbies # {}
       THEN \E l \in AvailableLobbies :
              conns' = [conns EXCEPT ![c].pc = "join", ![c].lobby = l]
       ELSE conns' = [conns EXCEPT ![c].pc = "create"]
    /\ UNCHANGED <<players, lobbies, sessions, now, nextId, ret, calls, detached>>

\* findOrCreateLobby: s.manager.CreateLobby(4) when none was found
ConnCreate(c) ==
    /\ conns[c].pc = "create"
    /\ CreateLobbyLocked(DefaultCapacity)
    /\ conns' = [conns EXCEPT ![c].pc = "join", ![c].lobby = nextId]
    /\ UNCHANGED calls

\* s.manager.JoinLobby(playerID, lobby.ID); on error close and return
ConnJoin(c) ==
    /\ conns[c].pc = "join"
    /\ JoinLobbyLocked(conns[c].user, conns[c].lobby)
    /\ conns' = [conns EXCEPT ![c].pc =
                     IF JoinLobbyErr(conns[c].user, conns[c].lobby) = ErrNone
                     THEN "ui" ELSE "closed"]
    /\ UNCHANGED calls

\* the client disconnects: program.Start returns, s.manager.RemovePlayer
ConnDisconnect(c) ==
    /\ conns[c].pc = "ui"
    /\ RemovePlayerLocked(conns[c].user)
    /\ conns' = [conns EXCEPT ![c].pc = "closed"]
    /\ UNCHANGED calls

NextServer ==
    \/ \E c \in ConnIds : ConnAdd(c)
    \/ \E c \in ConnIds : ConnFind(c)
    \/ \E c \in ConnIds : ConnCreate(c)
    \/ \E c \in ConnIds : ConnJoin(c)
    \/ \E c \in ConnIds : ConnDisconnect(c)

SpecServer == InitServer /\ [][NextServer]_vars

\* ------------------------------------------------------------------ locks
\* The mutexes: m.mu of the Manager ("m"), s.mu of a Session ("s") and l.mu
\* of a Lobby ("l"), each a sync.RWMutex.  Every operation is the sequence
\* of Lock/RLock, Unlock/RUnlock calls it makes and of the reads and writes
\* of shared data it performs in between, in program order: a read or write
\* on "m" touches m.players, m.lobbies or m.sessions, one on "s" the roster
\* s.Players, one on "l" the roster l.Players.  Loops over a registry are
\* taken with one registered session and one registered lobby.  A goroutine
\* is calls[t]: the rest of its operation, the locks it holds and whether
\* it is inside a pending Lock call.  A pending Lock call blocks new RLock
\* calls on the same mutex, as sync.RWMutex does.
Threads == 1..NumThreads

Lock(on, mode) == [k |-> "lock", on |-> on, mode |-> mode]
Unlock(on, mode) == [k |-> "unlock", on |-> on, mode |-> mode]
Read(on) == [k |-> "read", on |-> on, mode |-> "R"]
Write(on) == [k |-> "write", on |-> on, mode |-> "W"]

\* Session.AddPlayer
SessionAddPlayerLocks ==
    <<Lock("s", "W"), Read("s"), Write("s"), Unlock("s", "W")>>

\* Session.RemovePlayer
SessionRemovePlayerLocks == <<Lock("s", "W"), Write("s"), Unlock("s", "W")>>

\* Session.GetPlayer
SessionGetPlayerLocks == <<Lock("s", "R"), Read("s"), Unlock("s", "R")>>

\* Session.GetPlayers
SessionGetPlayersLocks == <<Lock("s", "R"), Read("s"), Unlock("s", "R")>>

\* Session.GetLeaderboard: copies s.Players itself under the read lock
SessionGetLeaderboardLocks == <<Lock("s", "R"), Read("s"), Unlock("s", "R")>>

\* Session.Start: len(s.Players) under the lock, then go s.runCountdown()
SessionStartLocks == <<Lock("s", "W"), Read("s"), Unlock("s", "W")>>

\* one write of runCountdown: s.Countdown or s.StartTime, no roster access
runCountdownLocks == <<Lock("s", "W"), Unlock("s", "W")>>

\* a Session.UpdatePlayerProgress that calls back into the Manager with
\* s.mu held
SessionUpdatePlayerProgressLocksCallback ==
    <<Lock("s", "W"), Read("s"), Write("s"),
      Lock("m", "R"), Read("m"), Unlock("m", "R"), Unlock("s", "W")>>

\* Session.UpdatePlayerProgress with checkCompletion, which takes no lock
SessionUpdatePlayerProgressLocks ==
    <<Lock("s", "W"), Read("s"), Write("s"), Read("s"), Unlock("s", "W")>>

\* Lobby.RemovePlayer
LobbyRemovePlayerLocks == <<Lock("l", "W"), Write("l"), Unlock("l", "W")>>

\* Lobby.GetPlayers
LobbyGetPlayersLocks == <<Lock("l", "R"), Read("l"), Unlock("l", "R")>>

\* Lobby.IsReady
LobbyIsReadyLocks == <<Lock("l", "R"), Read("l"), Unlock("l", "R")>>

\* Manager.AddPlayer
AddPlayerLocks == <<Lock("m", "W"), Read("m"), Write("m"), Unlock("m", "W")>>

\* Manager.RemovePlayer: both loops and the three deletes, under m.mu
RemovePlayerLocks ==
    <<Lock("m", "W"), Read("m")>> \o SessionRemovePlayerLocks
      \o SessionGetPlayersLocks \o <<Write("m"), Read("m")>>
      \o LobbyRemovePlayerLocks \o LobbyGetPlayersLocks
      \o <<Write("m"), Write("m"), Unlock("m", "W")>>

\* Manager.CreateLobby
CreateLobbyLocks == <<Lock("m", "W"), Write("m"), Unlock("m", "W")>>

\* Manager.JoinLobby: len(lobby.Players) and lobby.Players[playerID] =
\* player are direct accesses of the roster
JoinLobbyLocks ==
    <<Lock("m", "W"), Read("m"), Read("m"), Read("l"), Write("l"),
      Unlock("m", "W")>>

\* Manager.LeaveLobby
LeaveLobbyLocks ==
    <<Lock("m", "W"), Read("m")>> \o LobbyRemovePlayerLocks
      \o LobbyGetPlayersLocks \o <<Write("m"), Unlock("m", "W")>>

\* Manager.StartSessionFromLobby: len(lobby.Players) and the range over
\* lobby.Players are direct accesses, as is len(session.Players) in the log
StartSessionFromLobbyLocks ==
    <<Lock("m", "W"), Read("m"), Read("l"), Read("l")>>
      \o SessionAddPlayerLocks
      \o <<Write("m"), Write("m"), Read("s"), Unlock("m", "W")>>

\* Manager.GetSession
GetSessionLocks == <<Lock("m", "R"), Read("m"), Unlock("m", "R")>>

\* Manager.GetLobby
GetLobbyLocks == <<Lock("m", "R"), Read("m"), Unlock("m", "R")>>

\* Manager.GetAvailableLobbies: len(lobby.Players) is a direct access
GetAvailableLobbiesLocks ==
    <<Lock("m", "R"), Read("m"), Read("l"), Unlock("m", "R")>>

\* Manager.UpdatePlayerProgress: m.sessions[playerID] under the read lock,
\* the range over m.sessions after RUnlock
UpdatePlayerProgressLocks ==
    <<Lock("m", "R"), Read("m"), Unlock("m", "R"), Read("m")>>
      \o SessionGetPlayerLocks \o SessionUpdatePlayerProgressLocks

\* findOrCreateLobby up to its return of an available lobby
findOrCreateLobbyLocks == GetAvailableLobbiesLocks \o LobbyGetPlayersLocks

\* one tick of handlePlayerUpdates that finds the lobby ready
handlePlayerUpdatesLocks ==
    GetLobbyLocks \o LobbyIsReadyLocks \o StartSessionFromLobbyLocks

\* the lobby screen's refresh: GetLobby, then lobby.GetPlayers
LobbyViewLocks == GetLobbyLocks \o LobbyGetPlayersLocks

\* the race screen's refresh: GetSession, then the roster and leaderboard
RaceViewLocks ==
    GetSessionLocks \o SessionGetPlayersLocks \o SessionGetLeaderboardLocks

Operations ==
    {AddPlayerLocks, RemovePlayerLocks, CreateLobbyLocks, JoinLobbyLocks,
     LeaveLobbyLocks, UpdatePlayerProgressLocks, findOrCreateLobbyLocks,
     handlePlayerUpdatesLocks, LobbyViewLocks, RaceViewLocks,
     SessionStartLocks, runCountdownLocks}

Idle == [prog |-> <<>>, held |-> {}, wait |-> FALSE]

InitLocks ==
    /\ players = [p \in PlayerIds |-> NoPlayer]
    /\ lobbies = <<>>
    /\ sessions = <<>>
    /\ now = 1
    /\ nextId = NumPlayers + 1
    /\ ret = Result("NewManager", <<>>, ErrNone, NoId, <<>>)
    /\ calls = [t \in Threads |-> Idle]
    /\ detached = <<>>
    /\ conns = <<>>

Running(t) == calls[t].prog # <<>>

Next1(t) == Head(calls[t].prog)

\* some goroutine is inside Lock() on the mutex
WriterPending(on) ==
    \E u \in Threads :
        /\ Running(u)
        /\ calls[u].wait
        /\ Next1(u).on = on

Holders(on) == {u \in Threads : \E mode \in {"R", "W"} : <<on, mode>> \in calls[u].held}

\* a goroutine starts an operation
Begin(t) ==
    /\ ~Running(t)
    /\ \E op \in Operations : calls' = [calls EXCEPT ![t].prog = op]
    /\ UNCHANGED <<players, lobbies, sessions, now, nextId, ret, detached, conns>>

\* the goroutine enters Lock(): from now on RLock callers queue behind it
Request(t) ==
    /\ Running(t)
    /\ Next1(t).k = "lock"
    /\ Next1(t).mode = "W"
    /\ ~calls[t].wait
    /\ calls' = [calls EXCEPT ![t].wait = TRUE]
    /\ UNCHANGED <<players, lobbies, sessions, now, nextId, ret, detached, conns>>

CanAcquire(t) ==
    /\ Running(t)
    /\ Next1(t).k = "lock"
    /\ IF Next1(t).mode = "W"
       THEN calls[t].wait /\ Holders(Next1(t).on) = {}
       ELSE /\ \A u \in Threads : <<Next1(t).on, "W">> \notin calls[u].held
            /\ ~WriterPending(Next1(t).on)

\* Lock() or RLock() returns
Acquire(t) ==
    /\ CanAcquire(t)
    /\ calls' = [calls EXCEPT
                   ![t].prog = Tail(@),
                   ![t].held = @ \cup {<<Next1(t).on, Next1(t).mode>>},
                   ![t].wait = FALSE]
    /\ UNCHANGED <<players, lobbies, sessions, now, nextId, ret, detached, conns>>

\* Unlock() or RUnlock()
Release(t) ==
    /\ Running(t)
    /\ Next1(t).k = "unlock"
    /\ calls' = [calls EXCEPT
                   ![t].prog = Tail(@),
                   ![t].held = @ \ {<<Next1(t).on, Next1(t).mode>>}]
    /\ UNCHANGED <<players, lobbies, sessions, now, nextId, ret, detached, conns>>

\* a read or write of a registry or of a roster
Touch(t) ==
    /\ Running(t)
    /\ Next1(t).k \in {"read", "write"}
    /\ calls' = [calls EXCEPT ![t].prog = Tail(@)]
    /\ UNCHANGED <<players, lobbies, sessions, now, nextId, ret, detached, conns>>

NextLocks ==
    \/ \E t \in Threads : Begin(t)
    \/ \E t \in Threads : Request(t)
    \/ \E t \in Threads : Acquire(t)
    \/ \E t \in Threads : Release(t)
    \/ \E t \in Threads : Touch(t)

SpecLocks == InitLocks /\ [][NextLocks]_vars

\* Concurrent promotion of one lobby: the pollers of several connections
\* have all seen the lobby StartTarget ready and each calls
\* StartSessionFromLobby on it once; calls[c] is what caller c got back.
\* The calls serialise on m.mu in any order.
StartTarget == NumPlayers + 1

InitStart ==
    \E reg \in SUBSET PlayerIds, cap \in Caps, callers \in SUBSET ConnIds :
      \E roster \in SUBSET reg :
        /\ callers # {}
        /\ Cardinality(roster) >= MinPlayers
        /\ Cardinality(roster) <= cap
        /\ players = [p \in PlayerIds |->
                         IF p \in roster THEN NewPlayer(StartTarget, 1)
                         ELSE IF p \in reg THEN NewPlayer(NoId, 1)
                         ELSE NoPlayer]
        /\ lobbies = (StartTarget :> [NewLobby(cap) EXCEPT !.Players = roster])
        /\ sessions = <<>>
        /\ now = 1
        /\ nextId = NumPlayers + 2
        /\ ret = Result("JoinLobby", <<CHOOSE p \in roster : TRUE, StartTarget>>,
                        ErrNone, NoId, <<>>)
        /\ calls = [c \in callers |-> [err |-> "pending", id |-> NoId]]
        /\ detached = <<>>
        /\ conns = <<>>

StartCall(c) ==
    /\ c \in DOMAIN calls
    /\ calls[c].err = "pending"
    /\ StartSessionFromLobbyLocked(StartTarget)
    /\ calls' = [calls EXCEPT ![c] = [err |-> ret'.err, id |-> ret'.id]]
    /\ UNCHANGED conns

NextStart == \E c \in ConnIds : StartCall(c)

SpecStart == InitStart /\ [][NextStart]_vars

\* The clients of a lobby, from the moment their handlers have joined it:
\* for every connection the poller goroutine (handlePlayerUpdates) and the
\* bubbletea program with its model.  conns[c].poll is the poller's
\* position ("tick" at the top of the loop, "start" between lobby.IsReady()
\* and StartSessionFromLobby, "done" after its return), conns[c].inbox the
\* messages sent to the program and not yet handled, conns[c].view the
\* model in charge ("lobby" for LobbyModel, "race" for MultiplayerModel),
\* conns[c].sid the race model's sessionID, conns[c].loaded whether the
\* race model's session is set and conns[c].results its showResults.  The
\* program calls Init once, on the model it was started with; a command
\* that sleeps and returns a message is that message pending in the inbox.
\* The pollers and the UI look entities up under the ids they hold: the
\* poller under the ssh user name.  A lobby is registered under a uuid,
\* which may be the name a user chose: LobbyKeys.
RefreshLobbyMsg == [k |-> "RefreshLobbyMsg", sid |-> NoId]
RefreshGameMsg == [k |-> "RefreshGameMsg", sid |-> NoId]
StartGameMsg(sid) == [k |-> "StartGameMsg", sid |-> sid]

LobbyKeys == PlayerIds \cup {StartTarget}

Offline ==
    [user |-> NoId, pc |-> "closed", lobby |-> NoId, poll |-> "done",
     inbox |-> {}, view |-> "lobby", sid |-> NoId, loaded |-> FALSE,
     results |-> FALSE]

InitClient ==
    \E online \in SUBSET ConnIds, lk \in LobbyKeys :
      \E users \in [online -> PlayerIds] :
        /\ online # {}
        /\ \A c, d \in online : users[c] = users[d] => c = d
        /\ players = [p \in PlayerIds |->
                         IF \E c \in online : users[c] = p
                         THEN NewPlayer(lk, 1) ELSE NoPlayer]
        /\ lobbies = (lk :> [NewLobby(DefaultCapacity) EXCEPT
                               !.Players = {users[c] : c \in online}])
        /\ sessions = <<>>
        /\ now = 1
        /\ nextId = NumPlayers + 2
        /\ ret = Result("JoinLobby", <<CHOOSE p \in PlayerIds :
                                          \E c \in online : users[c] = p, lk>>,
                        ErrNone, NoId, <<>>)
        /\ calls = <<>>
        /\ detached = <<>>
        /\ conns = [c \in ConnIds |->
                      IF c \in online
                      THEN [user |-> users[c], pc |-> "ui", lobby |-> lk,
                            poll |-> "tick", inbox |-> {RefreshLobbyMsg},
                            view |-> "lobby", sid |-> NoId, loaded |-> FALSE,
                            results |-> FALSE]
                      ELSE Offline]

\* one tick of handlePlayerUpdates up to the StartSessionFromLobby call:
\* GetLobby(playerID) and lobby.IsReady(), else GetSession(playerID)
PollTick(c) ==
    /\ conns[c].poll = "tick"
    /\ LET id == conns[c].user
       IN IF id \in DOMAIN lobbies /\ LobbyIsReady(lobbies[id])
          THEN conns' = [conns EXCEPT ![c].poll = "start"]
          ELSE IF id \in DOMAIN sessions
          THEN conns' = [conns EXCEPT
                           ![c].inbox = @ \cup {RefreshGameMsg},
                           ![c].poll = IF sessions[id].IsFinished
                                       THEN "done" ELSE "tick"]
          ELSE UNCHANGED conns
    /\ UNCHANGED <<players, lobbies, sessions, now, nextId, ret, calls, detached>>

\* s.manager.StartSessionFromLobby(lobby.ID): on error continue, else send
\* StartGameMsg to this connection's program and return
PollStart(c) ==
    /\ conns[c].poll = "start"
    /\ StartSessionFromLobbyLocked(conns[c].user)
    /\ conns' = IF StartSessionFromLobbyErr(conns[c].user) = ErrNone
                THEN [conns EXCEPT ![c].inbox = @ \cup {StartGameMsg(nextId)},
                                   ![c].poll = "done"]
                ELSE [conns EXCEPT ![c].poll = "tick"]
    /\ UNCHANGED calls

\* LobbyModel.Update
LobbyUpdate(c, msg) ==
    IF msg.k = "RefreshLobbyMsg"
    THEN conns' = [conns EXCEPT ![c].inbox = (@ \ {msg}) \cup {RefreshLobbyMsg}]
    ELSE IF msg.k = "StartGameMsg"
    THEN conns' = [conns EXCEPT ![c].inbox = @ \ {msg},
                                ![c].view = "race",
                                ![c].sid = msg.sid,
                                ![c].loaded = FALSE,
                                ![c].results = FALSE]
    ELSE conns' = [conns EXCEPT ![c].inbox = @ \ {msg}]

\* MultiplayerModel.Update
MultiplayerUpdate(c, msg) ==
    IF msg.k = "RefreshGameMsg"
    THEN IF conns[c].sid \in DOMAIN sessions
         THEN conns' = [conns EXCEPT
                          ![c].inbox = (@ \ {msg}) \cup {RefreshGameMsg},
                          ![c].loaded = TRUE,
                          ![c].results = @ \/ sessions[conns[c].sid].IsFinished]
         ELSE conns' = [conns EXCEPT
                          ![c].inbox = (@ \ {msg}) \cup {RefreshGameMsg}]
    ELSE conns' = [conns EXCEPT ![c].inbox = @ \ {msg}]

\* the program takes a message and hands it to the model in charge
Deliver(c) ==
    /\ conns[c].pc = "ui"
    /\ \E msg \in conns[c].inbox :
          IF conns[c].view = "lobby" THEN LobbyUpdate(c, msg)
          ELSE MultiplayerUpdate(c, msg)
    /\ UNCHANGED <<players, lobbies, sessions, now, nextId, ret, calls, detached>>

NextClient ==
    \/ \E c \in ConnIds : PollTick(c)
    \/ \E c \in ConnIds : PollStart(c)
    \/ \E c \in ConnIds : Deliver(c)
    \/ \E c \in ConnIds : ConnDisconnect(c)

\* the ticker of every poller fires for ever and every program keeps
\* handling the messages it was sent
SpecClient ==
    /\ InitClient
    /\ [][NextClient]_vars
    /\ \A c \in ConnIds : WF_vars(PollTick(c)) /\ WF_vars(PollStart(c))
                            /\ WF_vars(Deliver(c))

\* One typing view and its key handler.  calls is the model of the view:
\* kind "race" for MultiplayerModel, whose session is nil until a
\* RefreshGameMsg finds it registered, and "practice" for PracticeModel,
\* whose quote is nil until the QuoteMsg of fetchQuote arrives; loaded says
\* that the pointer is set, prompt is the text behind it.  The race view
\* belongs to a member of the race session.  The view's wpm and accuracy,
\* which only the rendering reads, are left out; correctChars stands for
\* the statistics.  A nil pointer dereference panics: crashed.
NewView(kind, player) ==
    [kind |-> kind, player |-> player, loaded |-> FALSE, prompt |-> <<>>,
     typedInput |-> <<>>, correctChars |-> 0, isFinished |-> FALSE,
     showResults |-> FALSE, crashed |-> FALSE]

InitView ==
    \/ \E reg \in SUBSET PlayerIds, cap \in Caps, prompt \in Prompts :
         \E roster \in SUBSET reg :
           /\ Cardinality(roster) >= MinPlayers
           /\ Cardinality(roster) <= cap
           /\ players = [p \in PlayerIds |->
                            IF p \in roster THEN NewPlayer(RaceSession, 1)
                            ELSE IF p \in reg THEN NewPlayer(NoId, 1)
                            ELSE NoPlayer]
           /\ sessions = (RaceSession :>
                            [NewSession(prompt, cap) EXCEPT !.Players = roster])
           /\ nextId = NumPlayers + 3
           /\ ret = Result("StartSessionFromLobby", <<NumPlayers + 1>>, ErrNone,
                           RaceSession, <<>>)
           /\ \E p \in roster : calls = NewView("race", p)
           /\ lobbies = <<>>
           /\ now = 1
           /\ detached = <<>>
           /\ conns = <<>>
    \/ /\ players = [p \in PlayerIds |-> NoPlayer]
       /\ sessions = <<>>
       /\ nextId = NumPlayers + 1
       /\ ret = Result("NewPracticeModel", <<>>, ErrNone, NoId, <<>>)
       /\ calls = NewView("practice", NoId)
       /\ lobbies = <<>>
       /\ now = 1
       /\ detached = <<>>
       /\ conns = <<>>

\* MultiplayerModel.Update on RefreshGameMsg
ViewRefresh ==
    /\ calls.kind = "race"
    /\ ~calls.crashed
    /\ IF RaceSession \in DOMAIN sessions
       THEN calls' = [calls EXCEPT
                        !.loaded = TRUE,
                        !.prompt = sessions[RaceSession].Prompt,
                        !.showResults = @ \/ sessions[RaceSession].IsFinished]
       ELSE UNCHANGED calls
    /\ UNCHANGED <<players, lobbies, sessions, now, nextId, ret, detached, conns>>

\* PracticeModel.Update on QuoteMsg
ViewQuote ==
    /\ calls.kind = "practice"
    /\ ~calls.crashed
    /\ ~calls.loaded
    /\ \E q \in Prompts : calls' = [calls EXCEPT !.loaded = TRUE, !.prompt = q]
    /\ UNCHANGED <<players, lobbies, sessions, now, nextId, ret, detached, conns>>

\* updateProgress / updateStats: nothing without session or quote
ViewStats(v, typedInput) ==
    IF v.loaded
    THEN [v EXCEPT !.typedInput = typedInput,
                   !.correctChars =
                       IF v.kind = "practice" /\ Len(v.prompt) = 0 THEN @
                       ELSE CountCorrect(typedInput, v.prompt,
                                         Min(Len(typedInput), Len(v.prompt)))]
    ELSE [v EXCEPT !.typedInput = typedInput]

\* isComplete() && !isFinished, then finish(): isComplete dereferences
\* m.session or m.quote without a nil check
ViewFinish(v) ==
    IF ~v.loaded THEN [v EXCEPT !.crashed = TRUE]
    ELSE IF Len(v.typedInput) >= Len(v.prompt) /\ ~v.isFinished
    THEN [v EXCEPT !.isFinished = TRUE,
                   !.showResults = @ \/ v.kind = "practice"]
    ELSE v

\* Update on a key press of one printable character
ViewKey(ch) ==
    /\ ~calls.crashed
    /\ ~calls.showResults
    /\ Len(calls.typedInput) <= MaxLen
    /\ calls' = ViewFinish(ViewStats(calls, Append(calls.typedInput, ch)))
    /\ IF calls.kind = "race" /\ calls.loaded
       THEN UpdatePlayerProgressRouted(calls.player, Append(calls.typedInput, ch))
       ELSE UNCHANGED <<players, lobbies, sessions, now, nextId, ret, detached>>
    /\ UNCHANGED conns

\* Update on backspace
ViewBackspace ==
    /\ ~calls.crashed
    /\ ~calls.showResults
    /\ Len(calls.typedInput) > 0
    /\ calls' = ViewStats(calls, SubSeq(calls.typedInput, 1, Len(calls.typedInput) - 1))
    /\ IF calls.kind = "race" /\ calls.loaded
       THEN UpdatePlayerProgressRouted(calls.player,
                SubSeq(calls.typedInput, 1, Len(calls.typedInput) - 1))
       ELSE UNCHANGED <<players, lobbies, sessions, now, nextId, ret, detached>>
    /\ UNCHANGED conns

NextView ==
    \/ ViewRefresh
    \/ ViewQuote
    \/ \E ch \in Alphabet : ViewKey(ch)
    \/ ViewBackspace

SpecView == InitView /\ [][NextView]_vars

\* ------------------------------------------------------------------ claims
LobbyMembers(p) == {l \in DOMAIN lobbies : p \in lobbies[l].Players}
SessionMembers(p) == {k \in DOMAIN sessions : p \in sessions[k].Players}
\* the Session objects alive: the registered ones and the detached ones
Objects == detached @@ sessions
IsBoard == ret.op = "Session.GetLeaderboard"
BoardFinished(i) == players[ret.val[i]].IsFinished
BoardEnd(i) == players[ret.val[i]].EndTime

\* C1: every Finished session has only finished members on its roster and
\* an end time that is not before its start time.
SessionFinishedInv ==
    \A k \in DOMAIN sessions :
        sessions[k].IsFinished =>
            /\ \A p \in sessions[k].Players : players[p].IsFinished
            /\ sessions[k].EndTime >= sessions[k].StartTime

\* C2: concurrent JoinLobby calls of distinct registered players on one
\* lobby never fill it beyond its capacity; the callers that succeeded are
\* its members, every other returned call failed with "lobby is full", and
\* once all have returned exactly min(capacity, callers) succeeded.
JoinCapacityExact ==
    LET l == lobbies[JoinTarget]
        done == {p \in DOMAIN calls : calls[p] # "pending"}
        ok == {p \in DOMAIN calls : calls[p] = ErrNone}
    IN /\ Cardinality(l.Players) <= l.MaxPlayers
       /\ l.Players = ok
       /\ \A p \in done \ ok : calls[p] = ErrLobbyFull
       /\ done = DOMAIN calls =>
             Cardinality(ok) = Min(l.MaxPlayers, Cardinality(DOMAIN calls))

JoinCapacityWitness ==
    /\ \A p \in DOMAIN calls : calls[p] # "pending"
    /\ Cardinality({p \in DOMAIN calls : calls[p] = ErrNone}) = 2
    /\ \E p \in DOMAIN calls : calls[p] = ErrLobbyFull

\* C3: the leaderboard lists every finished member before every unfinished
\* member.
LeaderboardFinishedFirst ==
    IsBoard =>
        \A i, j \in DOMAIN ret.val :
            i < j => ~(~BoardFinished(i) /\ BoardFinished(j))

\* C4: the finished members appear on the leaderboard in non-decreasing
\* order of end time.
LeaderboardByEndTime ==
    IsBoard =>
        \A i, j \in DOMAIN ret.val :
            i < j /\ BoardFinished(i) /\ BoardFinished(j) => BoardEnd(i) <= BoardEnd(j)

\* a partially finished roster that the map iteration delivered with a
\* later finisher ahead of an earlier one
LeaderboardByEndTimeWitness ==
    /\ IsBoard
    /\ \E i \in DOMAIN ret.val : ~BoardFinished(i)
    /\ LET order == ret.arg[2]
       IN \E i, j \in DOMAIN order :
             /\ i < j
             /\ players[order[i]].IsFinished /\ players[order[j]].IsFinished
             /\ players[order[i]].EndTime > players[order[j]].EndTime

\* C5: GetLeaderboard returns each roster member exactly once and nobody
\* else, and leaves the roster and every player as they were.
LeaderboardIsPermutation ==
    [][IsBoard' /\ ret' # ret =>
          /\ Len(ret'.val) = Cardinality(sessions[ret'.arg[1]].Players)
          /\ {ret'.val[i] : i \in DOMAIN ret'.val} = sessions[ret'.arg[1]].Players
          /\ players' = players
          /\ sessions' = sessions]_vars

LeaderboardIsPermutationWitness ==
    /\ IsBoard
    /\ Len(ret.val) = NumPlayers
    /\ ret.val # ret.arg[2]

\* C6: a successful StartSessionFromLobby(l) registers, in one step, a new
\* session with l's capacity and exactly l's members and takes l out of the
\* lobby registry.
IsHandOff == ret.op = "StartSessionFromLobby" /\ ret.err = ErrNone

HandOffAtomic ==
    [][IsHandOff' /\ ret'.id \notin DOMAIN sessions =>
          LET l == ret'.arg[1]
              sid == ret'.id
          IN /\ l \in DOMAIN lobbies
             /\ sid \in DOMAIN sessions'
             /\ DOMAIN sessions' = DOMAIN sessions \cup {sid}
             /\ sessions'[sid].MaxPlayers = lobbies[l].MaxPlayers
             /\ sessions'[sid].Players = lobbies[l].Players
             /\ l \notin DOMAIN lobbies'
             /\ sid \notin DOMAIN lobbies']_vars

HandOffWitness ==
    /\ IsHandOff
    /\ ret.id \in DOMAIN sessions
    /\ Cardinality(sessions[ret.id].Players) = NumPlayers
    /\ ret.arg[1] \notin DOMAIN lobbies

\* C7: the session a successful StartSessionFromLobby returns is counting
\* down: active, countdown 3, its countdown goroutine launched.
HandOffStartsCountdown ==
    IsHandOff /\ ret.id \in DOMAIN sessions =>
        /\ sessions[ret.id].IsActive
        /\ sessions[ret.id].Countdown = CountdownFrom
        /\ sessions[ret.id].spawned = 1

\* C8: every registered player is a member of at most one registered lobby
\* or session.
AtMostOneEntity ==
    \A p \in Registered :
        Cardinality(LobbyMembers(p)) + Cardinality(SessionMembers(p)) <= 1

\* C9: Finish on an already finished player changes neither its end time
\* nor its WPM.
FinishIdempotent ==
    [][\A p \in PlayerIds :
          PlayerFinish(p) /\ players[p].IsFinished =>
              /\ players'[p].EndTime = players[p].EndTime
              /\ players'[p].WPM = players[p].WPM]_vars

\* C10: after UpdateProgress(typedInput, prompt) the player's counters obey
\* CorrectChars <= TotalChars <= min(len(typedInput), len(prompt)) and its
\* accuracy lies between 0 and 100.
UpdateProgressBounds ==
    ret.op = "Player.UpdateProgress" =>
        LET p == players[ret.arg[1]]
        IN /\ p.CorrectChars <= p.TotalChars
           /\ p.TotalChars <= Min(Len(ret.arg[2]), Len(ret.arg[3]))
           /\ 0 <= p.Accuracy.n
           /\ p.Accuracy.n <= 100 * p.Accuracy.d

\* C11: after RemovePlayer(p) p is not registered, is on the roster of no
\* registered lobby or session, and every lobby or session of which p was
\* the only member is deregistered.
RemovePlayerClears ==
    [][\A p \in PlayerIds :
          RemovePlayer(p) =>
              /\ players'[p] = NoPlayer
              /\ \A l \in DOMAIN lobbies' : p \notin lobbies'[l].Players
              /\ \A k \in DOMAIN sessions' : p \notin sessions'[k].Players
              /\ \A l \in DOMAIN lobbies :
                    lobbies[l].Players = {p} => l \notin DOMAIN lobbies'
              /\ \A k \in DOMAIN sessions :
                    sessions[k].Players = {p} => k \notin DOMAIN sessions']_vars

\* the last player has gone, and with it the lobby and the session that the
\* two uuids were drawn for
RemovePlayerClearsWitness ==
    /\ ret.op = "RemovePlayer"
    /\ Registered = {}
    /\ nextId = NumPlayers + 3
    /\ lobbies = <<>>
    /\ sessions = <<>>

\* C12: RemovePlayer(p) leaves every lobby and session that p is not a
\* member of registered and unchanged, and changes no registry at all when
\* p is not registered.
RemovePlayerFrame ==
    [][\A p \in PlayerIds :
          RemovePlayer(p) =>
              /\ \A l \in DOMAIN lobbies :
                    p \notin lobbies[l].Players =>
                        l \in DOMAIN lobbies' /\ lobbies'[l] = lobbies[l]
              /\ \A k \in DOMAIN sessions :
                    p \notin sessions[k].Players =>
                        k \in DOMAIN sessions' /\ sessions'[k] = sessions[k]
              /\ players[p] = NoPlayer =>
                    UNCHANGED <<players, lobbies, sessions>>]_vars

\* C13: at the step in which a session becomes Finished its end time is the
\* latest end time among its roster members.
SessionEndIsLastFinish ==
    [][\A k \in DOMAIN sessions \cap DOMAIN sessions' :
          ~sessions[k].IsFinished /\ sessions'[k].IsFinished =>
              /\ \A p \in sessions'[k].Players :
                    players'[p].EndTime <= sessions'[k].EndTime
              /\ \E p \in sessions'[k].Players :
                    players'[p].EndTime = sessions'[k].EndTime]_vars

\* C14: a session only moves forward through Pending, Counting-down, Active
\* and Finished: it stays active once started, stays Finished once
\* Finished, and becomes Finished only from Active (started, countdown 0).
SessionStateForward ==
    [][\A k \in DOMAIN sessions \cap DOMAIN sessions' :
          /\ sessions[k].IsActive => sessions'[k].IsActive
          /\ sessions[k].IsFinished => sessions'[k].IsFinished
          /\ ~sessions[k].IsFinished /\ sessions'[k].IsFinished =>
                sessions[k].IsActive /\ sessions[k].Countdown = 0]_vars

\* C15: once Start has succeeded on a session its countdown starts at 3 and
\* from then on either keeps its value or goes down by one, never below 0,
\* and the session has exactly one countdown goroutine.
CountdownDescends ==
    [][\A k \in DOMAIN Objects \cap DOMAIN Objects' :
          /\ ~Objects[k].IsActive /\ Objects'[k].IsActive =>
                Objects'[k].Countdown = CountdownFrom
          /\ Objects[k].IsActive =>
                /\ Objects'[k].Countdown \in
                      {Objects[k].Countdown, Objects[k].Countdown - 1}
                /\ Objects'[k].Countdown >= 0
                /\ Objects'[k].spawned = 1]_vars

\* the countdown has run out, and a second Start was refused
CountdownDescendsWitness ==
    /\ ret.op = "Session.Start"
    /\ ret.err = ErrSessionActive
    /\ \E k \in DOMAIN sessions :
          /\ sessions[k].IsActive
          /\ sessions[k].Countdown = 0
          /\ sessions[k].cd = <<>>

\* C16: under fair scheduling of the countdown goroutine the countdown of a
\* started session reaches 0, whatever progress updates arrive and even if
\* the session loses all its players and is deregistered meanwhile.
CountdownReachesZero ==
    \A k \in Uuids :
        (k \in DOMAIN Objects /\ Objects[k].IsActive)
            ~> (k \in DOMAIN Objects /\ Objects[k].IsActive
                  /\ Objects[k].Countdown = 0)

\* a session emptied and deregistered while counting down has reached 0
CountdownReachesZeroWitness ==
    \E k \in DOMAIN detached :
        /\ detached[k].Countdown = 0
        /\ detached[k].cd = <<>>
        /\ detached[k].spawned = 1

\* C17: Session.UpdatePlayerProgress(p, text) on a session with p on its
\* roster stores text as p's typed text, finishes p exactly when the text
\* is at least as long as the prompt and p was not finished, touches no
\* other player, and makes a session that was not Finished Finished, with
\* the current time as end time, iff every roster member is then finished;
\* with p not on the roster it changes no player and no session.
SessionProgressEffect ==
    [][ret'.op = "Session.UpdatePlayerProgress"
         /\ Progress(ret'.arg[1], ret'.arg[2], ret'.arg[3]) =>
          LET sid == ret'.arg[1]
              p == ret'.arg[2]
              t == ret'.arg[3]
          IN IF p \in sessions[sid].Players
             THEN /\ players'[p].TypedInput = t
                  /\ players'[p].IsFinished /\ ~players[p].IsFinished
                        <=> Len(t) >= Len(sessions[sid].Prompt)
                              /\ ~players[p].IsFinished
                  /\ players[p].IsFinished =>
                        /\ players'[p].IsFinished
                        /\ players'[p].EndTime = players[p].EndTime
                  /\ \A q \in PlayerIds \ {p} : players'[q] = players[q]
                  /\ \A k \in DOMAIN sessions \ {sid} : sessions'[k] = sessions[k]
                  /\ IF sessions[sid].IsFinished
                     THEN sessions'[sid] = sessions[sid]
                     ELSE IF \A q \in sessions[sid].Players : players'[q].IsFinished
                     THEN sessions'[sid] = [sessions[sid] EXCEPT !.IsFinished = TRUE,
                                                                 !.EndTime = now']
                     ELSE sessions'[sid] = sessions[sid]
             ELSE players' = players /\ sessions' = sessions]_vars

\* the update that finished the last member and with it the session
SessionProgressEffectWitness ==
    /\ ret.op = "Session.UpdatePlayerProgress"
    /\ ret.arg[1] \in DOMAIN sessions
    /\ LET s == sessions[ret.arg[1]]
       IN /\ ret.arg[2] \in s.Players
          /\ Cardinality(s.Players) = NumPlayers
          /\ s.IsFinished
          /\ s.EndTime = now
          /\ players[ret.arg[2]].EndTime = now
          /\ \E q \in s.Players : players[q].EndTime < now

\* C18: Manager.UpdatePlayerProgress(p, text) fails with "player not in any
\* session", changing no player and no session, exactly when no registered
\* session has p on its roster; otherwise it succeeds and has applied the
\* update to a registered session with p on its roster.
RouteProgressExact ==
    [][\A p \in PlayerIds \cup Uuids, t \in Texts :
          UpdatePlayerProgress(p, t) =>
              IF SessionMembers(p) = {}
              THEN /\ ret'.err = ErrNotInSession
                   /\ UNCHANGED <<players, sessions>>
              ELSE /\ ret'.err = ErrNone
                   /\ ret'.id \in SessionMembers(p)
                   /\ players'[p].TypedInput = t]_vars

\* C19: JoinLobby(p, l) fails with "player not found" when p is not
\* registered, else with "lobby not found" when l is not registered, else
\* with "lobby is full" when l is at capacity; a failed call changes no
\* player, lobby or session, and after a successful one l is the one lobby
\* that p is a member of.
JoinLobbyContract ==
    [][ret'.op = "JoinLobby" /\ JoinLobby(ret'.arg[1], ret'.arg[2]) =>
          LET p == ret'.arg[1]
              l == ret'.arg[2]
          IN /\ ret'.err =
                   IF players[p] = NoPlayer THEN ErrPlayerNotFound
                   ELSE IF l \notin DOMAIN lobbies THEN ErrLobbyNotFound
                   ELSE IF Cardinality(lobbies[l].Players) >= lobbies[l].MaxPlayers
                        THEN ErrLobbyFull
                   ELSE ErrNone
             /\ ret'.err # ErrNone => UNCHANGED <<players, lobbies, sessions>>
             /\ ret'.err = ErrNone =>
                   {k \in DOMAIN lobbies' : p \in lobbies'[k].Players} = {l}]_vars

\* C20: StartSessionFromLobby(l) fails with "lobby not found" when l is not
\* registered and with "not enough players to start session" when l is
\* registered with fewer than 2 members; a failed call changes no lobby, no
\* session and no player and draws no id.
StartFailsCleanly ==
    [][ret'.op = "StartSessionFromLobby" /\ StartSessionFromLobby(ret'.arg[1]) =>
          LET l == ret'.arg[1]
          IN /\ l \notin DOMAIN lobbies => ret'.err = ErrLobbyNotFound
             /\ l \in DOMAIN lobbies /\ Cardinality(lobbies[l].Players) < MinPlayers
                   => ret'.err = ErrNotEnough
             /\ ret'.err # ErrNone =>
                   UNCHANGED <<players, lobbies, sessions, nextId>>]_vars

\* a start refused on a lobby of one, which is still registered
StartFailsCleanlyWitness ==
    /\ ret.op = "StartSessionFromLobby"
    /\ ret.err = ErrNotEnough
    /\ ret.arg[1] \in DOMAIN lobbies
    /\ Cardinality(lobbies[ret.arg[1]].Players) = 1
    /\ sessions = <<>>

\* C21: Session.Start fails with "session is already active" on a session
\* that is not Pending (started, or Finished) and with "not enough players
\* to start" on a Pending session of fewer than 2 members; a failed Start
\* changes no session field and launches no goroutine, a successful one
\* sets the start time and countdown 3.
StartContract ==
    [][ret'.op = "Session.Start" /\ Start(ret'.arg[1]) =>
          LET sid == ret'.arg[1]
              s == sessions[sid]
              pending == ~s.IsActive /\ ~s.IsFinished
          IN /\ ~pending => ret'.err = ErrSessionActive
             /\ pending /\ Cardinality(s.Players) < MinPlayers
                   => ret'.err = ErrStartNotEnough
             /\ ret'.err # ErrNone => sessions' = sessions
             /\ ret'.err = ErrNone =>
                   /\ sessions'[sid].StartTime = now
                   /\ sessions'[sid].Countdown = CountdownFrom
                   /\ sessions'[sid].spawned = s.spawned + 1]_vars

\* C22: AddPlayer(p) fails with "player already exists" iff p is
\* registered, and then changes no player, lobby or session; otherwise it
\* registers one new unfinished player under p and changes no other.  A
\* player is only ever deregistered by a connection whose own AddPlayer
\* succeeded, never by one that was rejected as a duplicate.
AddPlayerContract ==
    [][/\ ret'.op = "AddPlayer" /\ AddPlayerLocked(ret'.arg[1]) =>
            LET p == ret'.arg[1]
            IN /\ ret'.err = ErrPlayerExists <=> players[p] # NoPlayer
               /\ ret'.err \in {ErrPlayerExists, ErrNone}
               /\ ret'.err # ErrNone => UNCHANGED <<players, lobbies, sessions>>
               /\ ret'.err = ErrNone =>
                     /\ players'[p] # NoPlayer
                     /\ ~players'[p].IsFinished
                     /\ \A q \in PlayerIds \ {p} : players'[q] = players[q]
                     /\ UNCHANGED <<lobbies, sessions>>
       /\ \A p \in PlayerIds :
            players[p] # NoPlayer /\ players'[p] = NoPlayer =>
                \E c \in ConnIds :
                    /\ conns[c].user = p
                    /\ conns[c].pc = "ui"
                    /\ conns'[c].pc = "closed"]_vars

\* a duplicate connection has been turned away while the first one, with
\* the same user name, is still playing and registered
AddPlayerContractWitness ==
    /\ ret.op = "AddPlayer"
    /\ ret.err = ErrPlayerExists
    /\ players[ret.arg[1]] # NoPlayer
    /\ \E c, d \in ConnIds :
          /\ conns[c].user = ret.arg[1] /\ conns[c].pc = "ui"
          /\ conns[d].user = ret.arg[1] /\ conns[d].pc = "closed"

\* C23: CreateLobby(capacity) fails, registering nothing, when capacity is
\* below 2, and otherwise succeeds and registers a new empty lobby of that
\* capacity under an id no registered lobby has.
CreateLobbyContract ==
    [][ret'.op = "CreateLobby" /\ CreateLobby(ret'.arg[1]) =>
          LET capacity == ret'.arg[1]
          IN /\ capacity < 2 => ret'.err # ErrNone /\ lobbies' = lobbies
             /\ capacity >= 2 =>
                   /\ ret'.err = ErrNone
                   /\ ret'.id \notin DOMAIN lobbies
                   /\ lobbies' = (ret'.id :> NewLobby(capacity)) @@ lobbies]_vars

\* C24: after an update of a roster member the member is complete exactly
\* when its typed text is at least as long as the prompt, and a member that
\* was not finished is finished exactly then, whatever it typed; the
\* characters beyond the prompt's length leave CorrectChars, TotalChars and
\* the accuracy as the text cut at the prompt's length gives them.
CompleteByLength ==
    [][/\ ret'.op = "Session.UpdatePlayerProgress"
       /\ Progress(ret'.arg[1], ret'.arg[2], ret'.arg[3])
       /\ ret'.arg[2] \in sessions[ret'.arg[1]].Players =>
          LET p == ret'.arg[2]
              t == ret'.arg[3]
              prompt == sessions[ret'.arg[1]].Prompt
              cut == UpdateProgress(players[p],
                                    SubSeq(t, 1, Min(Len(t), Len(prompt))),
                                    prompt, now)
          IN /\ IsComplete(players'[p], Len(prompt)) <=> Len(t) >= Len(prompt)
             /\ ~players[p].IsFinished =>
                   (players'[p].IsFinished <=> Len(t) >= Len(prompt))
             /\ players'[p].CorrectChars = cut.CorrectChars
             /\ players'[p].TotalChars = cut.TotalChars
             /\ players'[p].Accuracy = cut.Accuracy]_vars

\* a member finished by a text longer than the prompt with no character right
CompleteByLengthWitness ==
    /\ ret.op = "Session.UpdatePlayerProgress"
    /\ ret.arg[1] \in DOMAIN sessions
    /\ ret.arg[2] \in sessions[ret.arg[1]].Players
    /\ Len(ret.arg[3]) > Len(sessions[ret.arg[1]].Prompt)
    /\ players[ret.arg[2]].IsFinished
    /\ players[ret.arg[2]].TypedInput = ret.arg[3]
    /\ players[ret.arg[2]].CorrectChars = 0
    /\ players[ret.arg[2]].TotalChars = Len(sessions[ret.arg[1]].Prompt)

\* C25: a connection handler creates a lobby only when, at that moment, no
\* registered lobby has spare capacity.
CreateOnlyWhenNoneAvailable ==
    [][\A c \in ConnIds : ConnCreate(c) => AvailableLobbies = {}]_vars

\* C26: a lobby whose last member leaves, by LeaveLobby or RemovePlayer, is
\* deregistered in that step; a session is deregistered in the step that
\* removes its last member, and in no other step: only RemovePlayer of its
\* one remaining member takes a session out of the registry.
EmptiedMeansDeregistered ==
    [][/\ \A l \in DOMAIN lobbies \cap DOMAIN lobbies' :
            lobbies[l].Players # {} => lobbies'[l].Players # {}
       /\ \A k \in DOMAIN sessions \cap DOMAIN sessions' :
            sessions'[k].Players # {}
       /\ \A k \in DOMAIN sessions \ DOMAIN sessions' :
            /\ ret'.op = "RemovePlayer"
            /\ sessions[k].Players = {ret'.arg[1]}]_vars

\* a session that lost a member and stays registered with the other one
EmptiedMeansDeregisteredWitness ==
    /\ ret.op = "RemovePlayer"
    /\ \E k \in DOMAIN sessions :
          /\ Cardinality(sessions[k].Players) = 1
          /\ ret.arg[1] \notin sessions[k].Players

\* a goroutine inside an operation can take its next step
CanStep(t) ==
    /\ Running(t)
    /\ \/ Next1(t).k # "lock"
       \/ Next1(t).mode = "W" /\ ~calls[t].wait
       \/ CanAcquire(t)

\* C27: a goroutine that asks for the Manager lock holds no Lobby or Session
\* lock, no goroutine asks for a mutex it already holds, and whenever
\* goroutines are inside operations one of them can take its next step: no
\* interleaving of Manager operations, progress routing, roster reads and
\* countdown ticks ends with every goroutine blocked.
LockOrderNoDeadlock ==
    /\ \A t \in Threads :
          Running(t) /\ Next1(t).k = "lock" =>
              /\ Next1(t).on = "m" => calls[t].held = {}
              /\ t \notin Holders(Next1(t).on)
    /\ (\E t \in Threads : Running(t)) => \E t \in Threads : CanStep(t)

\* RemovePlayer holds m.mu and s.mu while a progress update, past the
\* Manager lock, is blocked on s.mu
LockOrderNoDeadlockWitness ==
    \E t, u \in Threads :
        /\ calls[t].held = {<<"m", "W">>, <<"s", "W">>}
        /\ Running(u)
        /\ Next1(u) = Lock("s", "W")
        /\ calls[u].wait
        /\ ~CanStep(u)

\* C28: every read of a registry is made with m.mu held, every write with
\* m.mu held for writing; every read of a roster is made with the lock of
\* its Lobby or Session held, every write with that lock held for writing.
AccessesAreGuarded ==
    [][\A t \in Threads :
          Touch(t) =>
              \/ <<Next1(t).on, "W">> \in calls[t].held
              \/ /\ Next1(t).k = "read"
                 /\ <<Next1(t).on, "R">> \in calls[t].held]_vars

\* C29: a started session whose current roster members are all finished is
\* Finished, also right after the last unfinished member was removed.
AllFinishedMeansFinished ==
    \A k \in DOMAIN sessions :
        /\ sessions[k].IsActive
        /\ \A p \in sessions[k].Players : players[p].IsFinished
        => sessions[k].IsFinished

\* p is on the roster of the registered race session
IsMember(p) ==
    /\ RaceSession \in DOMAIN sessions
    /\ p \in sessions[RaceSession].Players

\* p is on the roster with its finished flag set: Session.UpdatePlayerProgress
\* sets the flag when p submits a text at least as long as the prompt, and
\* nothing else sets it
HasCompleted(p) == IsMember(p) /\ players[p].IsFinished

RaceFinished ==
    /\ RaceSession \in DOMAIN sessions
    /\ sessions[RaceSession].IsFinished

\* C30: once every member of the roster of a registered session has
\* submitted, through Manager.UpdatePlayerProgress, a text at least as long as
\* the prompt, the session becomes Finished (unless it is deregistered
\* first); and a session with a roster member that never completes never
\* becomes Finished.
AllCompleteLeadsToFinished ==
    /\ (/\ RaceSession \in DOMAIN sessions
        /\ \A p \in sessions[RaceSession].Players : HasCompleted(p))
          ~> (RaceFinished \/ RaceSession \notin DOMAIN sessions)
    /\ \A p \in PlayerIds :
          [](IsMember(p) /\ ~HasCompleted(p)) => []~RaceFinished

\* C33: of the concurrent StartSessionFromLobby calls on one ready lobby
\* the first to run succeeds and every other one fails with "lobby not
\* found": exactly one session is created, it holds every member of the
\* lobby, and no member is left associated with the lobby.
StartExactlyOnce ==
    LET done == {c \in DOMAIN calls : calls[c].err # "pending"}
        ok == {c \in DOMAIN calls : calls[c].err = ErrNone}
    IN /\ done # {} => Cardinality(ok) = 1
       /\ \A c \in done \ ok : calls[c].err = ErrLobbyNotFound /\ calls[c].id = NoId
       /\ Cardinality(DOMAIN sessions) = Cardinality(ok)
       /\ \A c \in ok :
             /\ DOMAIN sessions = {calls[c].id}
             /\ StartTarget \notin DOMAIN lobbies
             /\ Cardinality(sessions[calls[c].id].Players) >= MinPlayers
             /\ sessions[calls[c].id].Players =
                    {p \in PlayerIds : players[p] # NoPlayer
                                         /\ players[p].SessionID = calls[c].id}
             /\ \A p \in PlayerIds :
                    players[p] # NoPlayer => players[p].SessionID # StartTarget

\* three callers raced: one created the session, two found the lobby gone
StartExactlyOnceWitness ==
    /\ Cardinality(DOMAIN calls) = NumConns
    /\ Cardinality({c \in DOMAIN calls : calls[c].err = ErrLobbyNotFound}) = NumConns - 1
    /\ Cardinality({c \in DOMAIN calls : calls[c].err = ErrNone}) = 1

\* C34: every member of a registered lobby or session is a registered
\* player.
RostersHoldRegisteredPlayers ==
    /\ \A l \in DOMAIN lobbies : \A p \in lobbies[l].Players : players[p] # NoPlayer
    /\ \A k \in DOMAIN sessions : \A p \in sessions[k].Players : players[p] # NoPlayer

\* a member of a session was deregistered and the session lives on with the
\* other member
RostersHoldRegisteredPlayersWitness ==
    /\ ret.op = "RemovePlayer"
    /\ players[ret.arg[1]] = NoPlayer
    /\ \E k \in DOMAIN sessions :
          \E q \in PlayerIds : sessions[k].Players = {q} /\ players[q] # NoPlayer

\* C35: a registered player's SessionID is empty or names a registered lobby
\* or session that has the player on its roster.
AssociationIsCurrent ==
    \A p \in PlayerIds :
        players[p] # NoPlayer /\ players[p].SessionID # NoId =>
            \/ /\ players[p].SessionID \in DOMAIN lobbies
               /\ p \in lobbies[players[p].SessionID].Players
            \/ /\ players[p].SessionID \in DOMAIN sessions
               /\ p \in sessions[players[p].SessionID].Players

\* C37: a progress update, routed by the Manager or sent to the session,
\* leaves the finished flag and the end time of every finished player as
\* they are, whatever the length of the new text.
FinishedStays ==
    [][ret'.op \in {"UpdatePlayerProgress", "Session.UpdatePlayerProgress"} =>
          \A p \in PlayerIds :
              players[p] # NoPlayer /\ players[p].IsFinished =>
                  /\ players'[p] # NoPlayer
                  /\ players'[p].IsFinished
                  /\ players'[p].EndTime = players[p].EndTime]_vars

\* a finished player whose last update, routed by the Manager, carried a
\* text shorter than the prompt
FinishedStaysWitness ==
    /\ ret.op = "UpdatePlayerProgress"
    /\ ret.err = ErrNone
    /\ ret.arg[1] \in PlayerIds
    /\ players[ret.arg[1]] # NoPlayer
    /\ players[ret.arg[1]].IsFinished
    /\ ret.id \in DOMAIN sessions
    /\ ret.arg[1] \in sessions[ret.id].Players
    /\ Len(players[ret.arg[1]].TypedInput) < Len(sessions[ret.id].Prompt)

\* C36: a connection handler that registered its player and returns has
\* deregistered that player: whenever a handler past its AddPlayer closes,
\* its user is no longer in the registry.
HandlerDeregisters ==
    [][\A c \in ConnIds :
          /\ conns[c].pc \in {"find", "create", "join", "ui"}
          /\ conns'[c].pc = "closed"
          => players'[conns[c].user] = NoPlayer]_vars

\* the connections whose user is on the lobby's roster and whose poller is
\* running beside a live program
PollingMembers(l) ==
    {c \in ConnIds : /\ conns[c].pc = "ui"
                     /\ conns[c].poll # "done"
                     /\ conns[c].user \in lobbies[l].Players}

HoldsTwoPolling(l) ==
    /\ l \in DOMAIN lobbies
    /\ Cardinality(PollingMembers(l)) >= MinPlayers

\* C31: a registered lobby with at least 2 members whose handlers are
\* polling is eventually promoted, by a successful StartSessionFromLobby on
\* it, unless it stops holding 2 polling members first.
ReadyLobbyIsPromoted ==
    \A l \in LobbyKeys :
        HoldsTwoPolling(l) ~>
            \/ IsHandOff /\ ret.arg[1] = l
            \/ ~HoldsTwoPolling(l)

\* the session whose roster holds the user of connection c, if any
SessionsOf(c) == {k \in DOMAIN sessions : conns[c].user \in sessions[k].Players}

\* C32: every connected member of a lobby that was promoted to a session
\* eventually has the start notification with the session's id handled by
\* its program, unless it disconnects first.
EveryMemberIsTold ==
    \A c \in ConnIds :
        (conns[c].pc = "ui" /\ SessionsOf(c) # {}) ~>
            \/ conns[c].view = "race" /\ conns[c].sid \in SessionsOf(c)
            \/ conns[c].pc # "ui"

\* C39: a client whose lobby view handled the start notification and
\* switched to the race view eventually has its session loaded by a
\* refresh, unless it disconnects first.
RaceViewLoads ==
    \A c \in ConnIds :
        (conns[c].pc = "ui" /\ conns[c].view = "race") ~>
            (conns[c].loaded \/ conns[c].pc # "ui")

\* C38: no key press makes the race view or the practice view fault,
\* whether or not the view has its session or quote yet.
KeyPressNeverFaults == ~calls.crashed

=============================================================================
